---------------------------- MODULE Spec2Model ----------------------------
(***************************************************************************)
(* The ACP sandbox merchant server (src/README.md, lines 237-777): three   *)
(* in-memory maps (checkout sessions, orders, payment tokens) and the      *)
(* Express handlers that read and write them.                              *)
(*                                                                         *)
(* Modelling conventions                                                   *)
(*  - A JSON field that is absent (or falsy, which every check of the code *)
(*    treats the same way) is the string "undefined"; null is "null".      *)
(*  - The request field `items` is a record [kind, elems]: kind "missing"  *)
(*    (absent or falsy), "nonarray" (a truthy value that is no array) or   *)
(*    "array" (elems is the array).                                        *)
(*  - uuidv4() is a source of identifiers that differ from every          *)
(*    identifier the server holds when it is called.  Identifiers are      *)
(*    opaque, so the model draws the least positive numbers not in use;    *)
(*    the textual prefix of an identifier is implied by its field.         *)
(*  - Math.random() and Date.now() are inputs: the prices are chosen from  *)
(*    those of the scope, the clock advances by the action Tick.           *)
(*  - A handler is synchronous JavaScript (no await), so it is one atomic  *)
(*    action.  `session` in a handler is a reference to the object held by *)
(*    the map: an assignment to one of its fields changes the stored       *)
(*    record at once, whether or not the handler later returns an error.   *)
(***************************************************************************)
EXTENDS Integers, Sequences, FiniteSets, TLC

VARIABLES
    checkoutSessions,   \* Map: session id -> session object
    orders,             \* Map: order id -> order object
    paymentTokens,      \* Map: token id -> token object
    clock,              \* Date.now()
    inflight,           \* requests received from concurrent clients, and their answers
    last,               \* the request handled last and its response
    redeemed            \* history: session id -> token of its successful Complete

vars == <<checkoutSessions, orders, paymentTokens, clock, inflight, last, redeemed>>

stores == <<checkoutSessions, orders, paymentTokens>>

-----------------------------------------------------------------------------
(* Bounds of the model *)

MaxSessions == 2     \* sessions created in a run
MaxTokens == 1       \* payment tokens minted in a run
MaxItems == 1        \* longest `items` array of a request
MaxClock == 1        \* latest clock reading
MaxLines == 3        \* longest line-item sequence handed to calculateTotals

(* Values of the requests *)

Undefined == "undefined"
Null == "null"
Item == [id |-> "item_123", quantity |-> 1]
UnknownIds == {0}                      \* identifiers the server never issued
UnmintedTokens == {0}                  \* a token string, such as "vt_x", never minted
Day == 86400000

-----------------------------------------------------------------------------
(* Helper functions *)

RECURSIVE SumBase(_)
SumBase(lineItems) ==
    IF lineItems = <<>> THEN 0
    ELSE Head(lineItems).base_amount + SumBase(Tail(lineItems))

\* Math.floor(x * 0.1) on a non-negative integer below 2^17 is x div 10
\* (the double product never falls under the quotient).
FloorTenth(x) == x \div 10

\* Identifiers that repeat from one call to the next: the fault C19 rules out.
Draws_Repeating(used, k) == [i \in 1..k |-> i]

\* uuidv4(), called k times: the k least positive numbers not in `used`.
RECURSIVE Draws(_, _)
Draws(used, k) ==
    IF k = 0 THEN <<>>
    ELSE LET v == CHOOSE n \in 1..(Cardinality(used) + 1) :
                      n \notin used /\ \A m \in 1..(n - 1) : m \in used
         IN  <<v>> \o Draws(used \cup {v}, k - 1)

\* createLineItems, followed by the per-item forEach of Create and Update.
\* ids: the uuid of each item; rnd: the price Math.random() gives each item.
createLineItems(items, ids, rnd) ==
    [i \in 1..Len(items) |->
        [id          |-> ids[i],
         item        |-> items[i],
         base_amount |-> rnd[i],
         discount    |-> 0,
         subtotal    |-> rnd[i],
         tax         |-> FloorTenth(rnd[i]),
         total       |-> rnd[i] + FloorTenth(rnd[i])]]

\* The menu with Express ahead of Standard: the fault C11 rules out.
createFulfillmentOptions_ExpressFirst(ids, now) ==
    << [type |-> "shipping", id |-> ids[1], title |-> "Express",
        carrier |-> "USPS",
        earliest_delivery_time |-> now + 1 * Day,
        latest_delivery_time |-> now + 2 * Day,
        subtotal |-> 500, tax |-> 0, total |-> 500],
       [type |-> "shipping", id |-> ids[2], title |-> "Standard",
        carrier |-> "USPS",
        earliest_delivery_time |-> now + 4 * Day,
        latest_delivery_time |-> now + 5 * Day,
        subtotal |-> 100, tax |-> 0, total |-> 100] >>

\* createFulfillmentOptions: Standard first, Express second.
createFulfillmentOptions(ids, now) ==
    << [type |-> "shipping", id |-> ids[1], title |-> "Standard",
        carrier |-> "USPS",
        earliest_delivery_time |-> now + 4 * Day,
        latest_delivery_time |-> now + 5 * Day,
        subtotal |-> 100, tax |-> 0, total |-> 100],
       [type |-> "shipping", id |-> ids[2], title |-> "Express",
        carrier |-> "USPS",
        earliest_delivery_time |-> now + 1 * Day,
        latest_delivery_time |-> now + 2 * Day,
        subtotal |-> 500, tax |-> 0, total |-> 500] >>

\* Array.prototype.find(opt => opt.id === id): the first match, or undefined
\* (the empty sequence here; a found option is a one-element sequence).
FindOption(options, id) ==
    LET hits == {i \in DOMAIN options : options[i].id = id}
    IN  IF hits = {} THEN <<>>
        ELSE <<options[CHOOSE i \in hits : \A j \in hits : i <= j]>>

\* Totals whose total leaves the fulfillment out: the fault C17 rules out.
calculateTotals_WithoutFulfillment(lineItems, found) ==
    LET itemsBaseAmount == SumBase(lineItems)
        subtotal == itemsBaseAmount
        tax == FloorTenth(subtotal)
        fulfillment == IF found # <<>> THEN found[1].total ELSE 0
        total == subtotal + tax
    IN  << [type |-> "items_base_amount", display_text |-> "Item(s) total",
            amount |-> itemsBaseAmount],
           [type |-> "subtotal", display_text |-> "Subtotal", amount |-> subtotal],
           [type |-> "tax", display_text |-> "Tax", amount |-> tax],
           [type |-> "fulfillment", display_text |-> "Fulfillment",
            amount |-> fulfillment],
           [type |-> "total", display_text |-> "Total", amount |-> total] >>

\* calculateTotals(lineItems, fulfillmentOption); found is FindOption's result.
calculateTotals(lineItems, found) ==
    LET itemsBaseAmount == SumBase(lineItems)
        subtotal == itemsBaseAmount
        tax == FloorTenth(subtotal)
        fulfillment == IF found # <<>> THEN found[1].total ELSE 0
        total == subtotal + tax + fulfillment
    IN  << [type |-> "items_base_amount", display_text |-> "Item(s) total",
            amount |-> itemsBaseAmount],
           [type |-> "subtotal", display_text |-> "Subtotal", amount |-> subtotal],
           [type |-> "tax", display_text |-> "Tax", amount |-> tax],
           [type |-> "fulfillment", display_text |-> "Fulfillment",
            amount |-> fulfillment],
           [type |-> "total", display_text |-> "Total", amount |-> total] >>

\* The JSON error object and its HTTP status.
Error(http, type, code, param) ==
    [http |-> http, type |-> type, code |-> code, param |-> param]

Ok(http) == [http |-> http, type |-> "ok", code |-> "ok", param |-> Undefined]

InternalError == Error(500, "processing_error", "internal_error", Undefined)

Sessions == DOMAIN checkoutSessions

Terminal == {"completed", "canceled"}

\* Every identifier the server holds.
UsedIds ==
    Sessions \cup DOMAIN orders \cup DOMAIN paymentTokens
    \cup UNION {{checkoutSessions[s].line_items[i].id :
                    i \in DOMAIN checkoutSessions[s].line_items} : s \in Sessions}
    \cup UNION {{checkoutSessions[s].fulfillment_options[i].id :
                    i \in DOMAIN checkoutSessions[s].fulfillment_options} : s \in Sessions}

NotFound == Error(404, "invalid_request", "not_found", "$.id")

\* What a handler leaves behind: the three maps, the response (status and
\* error object) and the response body (<<>> for an error).  Reply is the
\* outcome of a handler that returns without having written anything.
Reply(res, body) ==
    [sessions |-> checkoutSessions, orders |-> orders, tokens |-> paymentTokens,
     redeemed |-> redeemed, res |-> res, body |-> body]

-----------------------------------------------------------------------------
(* The middleware of the checkout-session and delegate-payment routes.  A  *)
(* request has the headers [authorization, api_version]; authorization is  *)
(* the header cut after its first seven characters, <<>> when absent, so   *)
(* startsWith('Bearer ') is a test of its first part.                      *)

\* A check of the header's presence alone: the fault C18 rules out.
AuthRejected_PresenceOnly(h) == h.authorization = <<>>

\* !authHeader || !authHeader.startsWith('Bearer ')
AuthRejected(h) == h.authorization = <<>> \/ h.authorization[1] # "Bearer "

\* !version || version !== '2025-09-29'
VersionRejected(h) == h.api_version = Undefined \/ h.api_version # "2025-09-29"

\* validateAuth, then validateApiVersion, then the route handler, whose
\* outcome is out.
Guarded(h, out) ==
    IF AuthRejected(h)
    THEN Reply(Error(401, "invalid_request", "missing_authorization", Undefined), <<>>)
    ELSE IF VersionRejected(h)
    THEN Reply(Error(400, "invalid_request", "invalid_api_version", Undefined), <<>>)
    ELSE out

-----------------------------------------------------------------------------
(* POST /checkout_sessions *)

\* The validation without its emptiness test: the fault C10 rules out.
CreateRejects_AcceptsEmpty(items) == items.kind # "array"

\* !items || !Array.isArray(items) || items.length === 0
CreateRejects(items) == items.kind # "array" \/ items.elems = <<>>

CreateH(req, rnd) ==
    IF CreateRejects(req.items)
    THEN Reply(Error(400, "invalid_request", "invalid", "$.items"), <<>>)
    ELSE LET n == Len(req.items.elems)
             ids == Draws(UsedIds, n + 3)
             sessionId == ids[1]
             lineItems == createLineItems(req.items.elems, SubSeq(ids, 2, n + 1), rnd)
             fulfillmentOptions ==
                 createFulfillmentOptions(SubSeq(ids, n + 2, n + 3), clock)
             selectedOption == fulfillmentOptions[1]
             totals == calculateTotals(lineItems, <<selectedOption>>)
             session ==
                 [id |-> sessionId,
                  payment_provider |-> [provider |-> "stripe",
                                        supported_payment_methods |-> <<"card">>],
                  status |-> "ready_for_payment",
                  currency |-> "usd",
                  line_items |-> lineItems,
                  fulfillment_address |->
                      IF req.fulfillment_address # Undefined
                      THEN req.fulfillment_address ELSE Null,
                  fulfillment_option_id |-> selectedOption.id,
                  totals |-> totals,
                  fulfillment_options |-> fulfillmentOptions,
                  messages |-> <<>>,
                  links |-> <<[type |-> "terms_of_use",
                               url |-> "https://www.testshop.com/legal/terms-of-use"]>>,
                  buyer |-> Undefined,
                  order |-> <<>>,
                  created_at |-> clock,
                  updated_at |-> clock]
         IN  [Reply(Ok(201), <<session>>) EXCEPT
                 !.sessions = [s \in Sessions \cup {sessionId} |->
                                  IF s = sessionId THEN session ELSE checkoutSessions[s]]]

-----------------------------------------------------------------------------
(* POST /checkout_sessions/:id *)

\* if (items) { ... session.line_items = lineItems }
SetItems(session, req, rnd) ==
    IF req.items.kind = "array"
    THEN [session EXCEPT !.line_items =
              createLineItems(req.items.elems, Draws(UsedIds, Len(req.items.elems)), rnd)]
    ELSE session

\* An address change that builds the option menu anew: the fault C7 rules out.
SetAddress_Regenerates(session, req) ==
    IF req.fulfillment_address # Undefined
    THEN [session EXCEPT
             !.fulfillment_address = req.fulfillment_address,
             !.fulfillment_options = createFulfillmentOptions(Draws(UsedIds, 2), clock)]
    ELSE session

\* if (fulfillment_address) { session.fulfillment_address = fulfillment_address }
SetAddress(session, req) ==
    IF req.fulfillment_address # Undefined
    THEN [session EXCEPT !.fulfillment_address = req.fulfillment_address]
    ELSE session

\* An update that never looks the option up: the fault C6 rules out.
OptionUnknown_Never(session, req) == FALSE

\* if (fulfillment_option_id) { option = find(...); if (!option) return 400 }
OptionUnknown(session, req) ==
    /\ req.fulfillment_option_id # <<>>
    /\ FindOption(session.fulfillment_options, req.fulfillment_option_id[1]) = <<>>

\* session.fulfillment_option_id = fulfillment_option_id
SetOption(session, req) ==
    IF req.fulfillment_option_id # <<>>
    THEN [session EXCEPT !.fulfillment_option_id = req.fulfillment_option_id[1]]
    ELSE session

\* Recalculate totals; session.updated_at = now
Recalculate(session) ==
    [session EXCEPT
        !.totals = calculateTotals(session.line_items,
                       FindOption(session.fulfillment_options, session.fulfillment_option_id)),
        !.updated_at = clock]

\* The handler with the option assigned ahead of its lookup: the fault C13
\* rules out.
UpdateBody_AssignsFirst(session, req, rnd) ==
    IF req.items.kind = "nonarray"
    THEN [session |-> session, res |-> InternalError]
    ELSE LET edited == SetOption(SetAddress(SetItems(session, req, rnd), req), req)
         IN  IF OptionUnknown(edited, req)
             THEN [session |-> edited,
                   res |-> Error(400, "invalid_request", "invalid",
                                 "$.fulfillment_option_id")]
             ELSE [session |-> Recalculate(edited), res |-> Ok(200)]


\* The handler with the address assigned ahead of the items: a throw in
\* createLineItems then comes after a write, the fault C22 rules out.
UpdateBody_AddressFirst(session, req, rnd) ==
    IF req.items.kind = "nonarray"
    THEN [session |-> SetAddress(session, req), res |-> InternalError]
    ELSE LET edited == SetItems(SetAddress(session, req), req, rnd)
         IN  IF OptionUnknown(edited, req)
             THEN [session |-> edited,
                   res |-> Error(400, "invalid_request", "invalid",
                                 "$.fulfillment_option_id")]
             ELSE [session |-> Recalculate(SetOption(edited, req)), res |-> Ok(200)]

\* The statements of the handler after the status guard, on the session
\* object: the record the map holds when the handler returns, and the
\* response.  Every assignment made before an early return stays.
UpdateBody(session, req, rnd) ==
    IF req.items.kind = "nonarray"
    THEN [session |-> session, res |-> InternalError]      \* items.map is not a function
    ELSE LET edited == SetAddress(SetItems(session, req, rnd), req)
         IN  IF OptionUnknown(edited, req)
             THEN [session |-> edited,
                   res |-> Error(400, "invalid_request", "invalid",
                                 "$.fulfillment_option_id")]
             ELSE [session |-> Recalculate(SetOption(edited, req)), res |-> Ok(200)]

\* The guard without its canceled case: the fault C4 rules out.
UpdateBlocked_OnlyCompleted(session) == session.status = "completed"

\* session.status === 'completed' || session.status === 'canceled'
UpdateBlocked(session) == session.status \in Terminal

UpdateH(req, rnd) ==
    IF req.id \notin Sessions
    THEN Reply(NotFound, <<>>)
    ELSE IF UpdateBlocked(checkoutSessions[req.id])
    THEN Reply(Error(400, "invalid_request", "invalid_status", "$.status"), <<>>)
    ELSE LET out == UpdateBody(checkoutSessions[req.id], req, rnd)
         IN  [Reply(out.res, IF out.res.http = 200 THEN <<out.session>> ELSE <<>>) EXCEPT
                 !.sessions = [checkoutSessions EXCEPT ![req.id] = out.session]]

-----------------------------------------------------------------------------
(* GET /checkout_sessions/:id *)

RetrieveH(req) ==
    IF req.id \notin Sessions
    THEN Reply(NotFound, <<>>)
    ELSE Reply(Ok(200), <<checkoutSessions[req.id]>>)

-----------------------------------------------------------------------------
(* POST /checkout_sessions/:id/complete *)

\* A guard that stops canceled sessions only: the fault C3 rules out.
CompleteBlocked_OnlyCanceled(session) == session.status = "canceled"

\* session.status !== 'ready_for_payment'
CompleteBlocked(session) == session.status # "ready_for_payment"


\* Complete with the order stored but the session's status left alone: the
\* fault C21 rules out.
CompleteSession_StatusKept(req) ==
    LET orderId == Draws(UsedIds, 1)[1]
        order == [id |-> orderId,
                  checkout_session_id |-> req.id,
                  permalink_url |-> orderId,
                  status |-> "created",
                  created_at |-> clock]
        session == [checkoutSessions[req.id] EXCEPT
                       !.buyer = req.buyer,
                       !.order = <<order>>,
                       !.updated_at = clock]
    IN  [Reply(Ok(200), <<session>>) EXCEPT
            !.orders = [o \in DOMAIN orders \cup {orderId} |->
                           IF o = orderId THEN order ELSE orders[o]],
            !.sessions = [checkoutSessions EXCEPT ![req.id] = session],
            !.redeemed = [s \in DOMAIN redeemed \cup {req.id} |->
                             IF s = req.id THEN req.payment_data.token[1]
                             ELSE redeemed[s]]]

\* Create order; update session; res.json(session)
CompleteSession(req) ==
    LET orderId == Draws(UsedIds, 1)[1]
        order == [id |-> orderId,
                  checkout_session_id |-> req.id,
                  permalink_url |-> orderId,
                  status |-> "created",
                  created_at |-> clock]
        session == [checkoutSessions[req.id] EXCEPT
                       !.status = "completed",
                       !.buyer = req.buyer,
                       !.order = <<order>>,
                       !.updated_at = clock]
    IN  [Reply(Ok(200), <<session>>) EXCEPT
            !.orders = [o \in DOMAIN orders \cup {orderId} |->
                           IF o = orderId THEN order ELSE orders[o]],
            !.sessions = [checkoutSessions EXCEPT ![req.id] = session],
            !.redeemed = [s \in DOMAIN redeemed \cup {req.id} |->
                             IF s = req.id THEN req.payment_data.token[1]
                             ELSE redeemed[s]]]

\* The handler with the payment data tested ahead of the status: the fault
\* C14 rules out.
CompleteH_TokenFirst(req) ==
    IF req.id \notin Sessions
    THEN Reply(NotFound, <<>>)
    ELSE IF req.payment_data.kind = "missing" \/ req.payment_data.token = <<>>
    THEN Reply(Error(400, "invalid_request", "invalid", "$.payment_data"), <<>>)
    ELSE IF CompleteBlocked(checkoutSessions[req.id])
    THEN Reply(Error(400, "invalid_request", "invalid_status", "$.status"), <<>>)
    ELSE CompleteSession(req)

CompleteH(req) ==
    IF req.id \notin Sessions
    THEN Reply(NotFound, <<>>)
    ELSE IF CompleteBlocked(checkoutSessions[req.id])
    THEN Reply(Error(400, "invalid_request", "invalid_status", "$.status"), <<>>)
    ELSE IF req.payment_data.kind = "missing" \/ req.payment_data.token = <<>>
    THEN Reply(Error(400, "invalid_request", "invalid", "$.payment_data"), <<>>)
    ELSE CompleteSession(req)

-----------------------------------------------------------------------------
(* POST /checkout_sessions/:id/cancel *)

\* The guard without its completed case: the fault C9 rules out.
CancelBlocked_OnlyCanceled(session) == session.status = "canceled"

\* session.status === 'completed' || session.status === 'canceled'
CancelBlocked(session) == session.status \in Terminal

\* The late cancel answered like a late update: the fault C8 rules out.
CancelConflict_AsUpdate == Error(400, "invalid_request", "invalid_status", "$.status")

\* res.status(405): the status of a cancel that comes too late
CancelConflict == Error(405, "invalid_request", "invalid_status", "$.status")

\* A cancel that drops the session from the store: the fault C20 rules out.
CancelH_Deleting(req) ==
    IF req.id \notin Sessions
    THEN Reply(NotFound, <<>>)
    ELSE IF CancelBlocked(checkoutSessions[req.id])
    THEN Reply(CancelConflict, <<>>)
    ELSE [Reply(Ok(200), <<[checkoutSessions[req.id] EXCEPT !.status = "canceled"]>>) EXCEPT
             !.sessions = [s \in Sessions \ {req.id} |-> checkoutSessions[s]]]

CancelH(req) ==
    IF req.id \notin Sessions
    THEN Reply(NotFound, <<>>)
    ELSE IF CancelBlocked(checkoutSessions[req.id])
    THEN Reply(CancelConflict, <<>>)
    ELSE LET session == [checkoutSessions[req.id] EXCEPT
                            !.status = "canceled",
                            !.messages = <<[type |-> "info", content_type |-> "plain",
                                            content |-> "Checkout session has been canceled."]>>,
                            !.updated_at = clock]
         IN  [Reply(Ok(200), <<session>>) EXCEPT
                 !.sessions = [checkoutSessions EXCEPT ![req.id] = session]]

-----------------------------------------------------------------------------
(* POST /agentic_commerce/delegate_payment *)

\* The response is all of the token: the fault C16 rules out.
DelegateResponse_Echo(token) == token

\* res.status(201).json({ id, created, metadata })
DelegateResponse(token) ==
    [id |-> token.id, created |-> token.created, metadata |-> token.metadata]

\* Create payment token; paymentTokens.set(tokenId, token); respond
StoreToken(req) ==
    LET tokenId == Draws(UsedIds, 1)[1]
        metadata == IF req.metadata # Undefined THEN req.metadata ELSE "{}"
        token == [id |-> tokenId,
                  created |-> clock,
                  payment_method |-> req.payment_method[1],
                  allowance |-> req.allowance[1],
                  billing_address |-> req.billing_address,
                  risk_signals |-> req.risk_signals.elems,
                  metadata |-> metadata]
    IN  [Reply(Ok(201), <<DelegateResponse(token)>>) EXCEPT
            !.tokens = [t \in DOMAIN paymentTokens \cup {tokenId} |->
                           IF t = tokenId THEN token ELSE paymentTokens[t]]]

\* The handler with the allowance tested ahead of the payment method: the
\* fault C15 rules out.
DelegateH_AllowanceFirst(req) ==
    IF req.allowance = <<>> \/ req.allowance[1].reason # "one_time"
    THEN Reply(Error(400, "invalid_request", "invalid_allowance", "$.allowance.reason"), <<>>)
    ELSE IF req.payment_method = <<>> \/ req.payment_method[1].type # "card"
    THEN Reply(Error(400, "invalid_request", "invalid_card", "$.payment_method.type"), <<>>)
    ELSE IF req.risk_signals.kind # "array" \/ req.risk_signals.elems = <<>>
    THEN Reply(Error(400, "invalid_request", "invalid", "$.risk_signals"), <<>>)
    ELSE StoreToken(req)

DelegateH(req) ==
    IF req.payment_method = <<>> \/ req.payment_method[1].type # "card"
    THEN Reply(Error(400, "invalid_request", "invalid_card", "$.payment_method.type"), <<>>)
    ELSE IF req.allowance = <<>> \/ req.allowance[1].reason # "one_time"
    THEN Reply(Error(400, "invalid_request", "invalid_allowance", "$.allowance.reason"), <<>>)
    ELSE IF req.risk_signals.kind # "array" \/ req.risk_signals.elems = <<>>
    THEN Reply(Error(400, "invalid_request", "invalid", "$.risk_signals"), <<>>)
    ELSE StoreToken(req)

-----------------------------------------------------------------------------
(* GET /health *)

HealthH(req) ==
    Reply(Ok(200), <<[status |-> "healthy", timestamp |-> clock,
                      sessions |-> Cardinality(DOMAIN checkoutSessions),
                      orders |-> Cardinality(DOMAIN orders),
                      tokens |-> Cardinality(DOMAIN paymentTokens)]>>)

-----------------------------------------------------------------------------
(* Requests.  An optional scalar field is a sequence: <<>> when absent,    *)
(* <<v>> when supplied.  A scope names the values the clients of a         *)
(* specification send and the number of sessions they create.              *)

Missing == [kind |-> "missing", elems |-> <<>>]
NonArray == [kind |-> "nonarray", elems |-> <<>>]
Array(n) == [kind |-> "array", elems |-> [i \in 1..n |-> Item]]

PaymentMethodInputs == {<<>>} \cup {<<[type |-> t]>> : t \in {"card", "paypal"}}

AllowanceInputs == {<<>>} \cup {<<[reason |-> r]>> : r \in {"one_time", "recurring"}}

RiskSignalsInputs ==
    {[kind |-> "missing", elems |-> <<>>], [kind |-> "nonarray", elems |-> <<>>],
     [kind |-> "array", elems |-> <<>>], [kind |-> "array", elems |-> <<"card_testing">>]}

\* The headers test-api.js sends.
GoodHeaders ==
    [authorization |-> <<"Bearer ", "test_token_12345">>, api_version |-> "2025-09-29"]

\* Absent, of another scheme, in lower case, well-formed, and without a token.
AuthorizationInputs ==
    {<<>>, <<"Basic d", "XNlcjpwdw==">>, <<"bearer ", "test_token_12345">>,
     <<"Bearer ", "test_token_12345">>, <<"Bearer ">>}

ApiVersionInputs == {Undefined, "2025-09-29", "2024-01-01"}

\* One session taken through its lifecycle, with payment tokens, unknown
\* ids and the clock: updates change the selected option only.
Single ==
    [maxSessions |-> 1,
     createItems |-> {Missing, NonArray, Array(0), Array(1)},
     updateItems |-> {Missing, NonArray},
     prices      |-> {1000, 1005},
     addresses   |-> {Undefined},
     buyers      |-> {Undefined, "buyer_A"},
     unknownIds  |-> UnknownIds,
     metadata    |-> {Undefined},
     methods     |-> PaymentMethodInputs,
     allowances  |-> AllowanceInputs,
     risks       |-> RiskSignalsInputs,
     headers     |-> {GoodHeaders}]

\* Several sessions side by side, created, completed and canceled, and the
\* tokens delegated meanwhile.
Pair ==
    [maxSessions |-> MaxSessions,
     createItems |-> {Missing, NonArray, Array(0), Array(1)},
     updateItems |-> {Missing},
     prices      |-> {1005},
     addresses   |-> {Undefined},
     buyers      |-> {"buyer_A"},
     unknownIds  |-> {},
     metadata    |-> {Undefined},
     methods     |-> {<<[type |-> "card"]>>},
     allowances  |-> {<<[reason |-> r]>> : r \in {"one_time", "recurring"}},
     risks       |-> {[kind |-> "array", elems |-> <<"card_testing">>]},
     headers     |-> {GoodHeaders}]

\* One session edited in every way: items, address and option in every
\* combination.
Pricing ==
    [maxSessions |-> 1,
     createItems |-> {Missing, NonArray} \cup {Array(n) : n \in 0..MaxItems},
     updateItems |-> {Missing, NonArray} \cup {Array(n) : n \in 0..MaxItems},
     prices      |-> {1000, 1005},
     addresses   |-> {Undefined, "addr_A"},
     buyers      |-> {"buyer_A"},
     unknownIds  |-> {},
     metadata    |-> {Undefined},
     methods     |-> {<<[type |-> "card"]>>},
     allowances  |-> {<<[reason |-> r]>> : r \in {"one_time", "recurring"}},
     risks       |-> {[kind |-> "array", elems |-> <<"card_testing">>]},
     headers     |-> {GoodHeaders}]

\* The option ids of the addressed session, and one that is none of them.
OptionIdInputs(id) ==
    {<<>>} \cup {<<u>> : u \in UnknownIds}
    \cup {<<checkoutSessions[id].fulfillment_options[k].id>> : k \in 1..2}

PaymentDataInputs ==
    {[kind |-> "missing", token |-> <<>>], [kind |-> "object", token |-> <<>>]}
    \cup {[kind |-> "object", token |-> <<t>>] :
             t \in DOMAIN paymentTokens \cup UnmintedTokens}

CreateReqs(sc) ==
    [op : {"create"}, items : sc.createItems, buyer : sc.buyers,
     fulfillment_address : sc.addresses]

\* Every combination of fields on a stored session; one request per unknown id.
UpdateReqs(sc) ==
    UNION {[op : {"update"}, id : {id}, items : sc.updateItems,
            fulfillment_address : sc.addresses,
            fulfillment_option_id : OptionIdInputs(id)] : id \in Sessions}
    \cup [op : {"update"}, id : sc.unknownIds, items : {Missing},
          fulfillment_address : {Undefined}, fulfillment_option_id : {<<>>}]

RetrieveReqs(sc) == [op : {"retrieve"}, id : Sessions \cup sc.unknownIds]

CompleteReqs(sc) ==
    [op : {"complete"}, id : Sessions, buyer : sc.buyers,
     payment_data : PaymentDataInputs]
    \cup [op : {"complete"}, id : sc.unknownIds, buyer : {Undefined},
          payment_data : {[kind |-> "missing", token |-> <<>>]}]

CancelReqs(sc) == [op : {"cancel"}, id : Sessions \cup sc.unknownIds]

DelegateReqs(sc) ==
    [op : {"delegate"}, payment_method : sc.methods,
     allowance : sc.allowances, billing_address : {Undefined},
     risk_signals : sc.risks, metadata : sc.metadata]

\* The prices Math.random() yields for the items of a request.
PriceDraws(sc, req) == [1..Len(req.items.elems) -> sc.prices]

-----------------------------------------------------------------------------
(* The server with one client at a time: a request is handled when it      *)
(* arrives.                                                                *)

Init ==
    /\ checkoutSessions = <<>>
    /\ orders = <<>>
    /\ paymentTokens = <<>>
    /\ clock = 0
    /\ inflight = {}
    /\ redeemed = <<>>
    /\ last = [op |-> "none", id |-> <<>>, res |-> Ok(200), body |-> <<>>]

\* The server handles req with outcome out: the maps are as the handler left
\* them, and `last` keeps the operation, the addressed id (<<>> when the
\* route has none) and the response.
Handle(req, out) ==
    /\ checkoutSessions' = out.sessions
    /\ orders' = out.orders
    /\ paymentTokens' = out.tokens
    /\ redeemed' = out.redeemed
    /\ last' = [op |-> req.op,
                id |-> IF req.op \in {"update", "retrieve", "complete", "cancel"}
                       THEN <<req.id>> ELSE <<>>,
                res |-> out.res, body |-> out.body]

Create(sc) ==
    \E h \in sc.headers : \E req \in CreateReqs(sc) : \E rnd \in PriceDraws(sc, req) :
        /\ Handle(req, Guarded(h, CreateH(req, rnd)))
        /\ Cardinality(DOMAIN checkoutSessions') <= sc.maxSessions
        /\ UNCHANGED <<clock, inflight>>

Update(sc) ==
    \E h \in sc.headers : \E req \in UpdateReqs(sc) : \E rnd \in PriceDraws(sc, req) :
        Handle(req, Guarded(h, UpdateH(req, rnd))) /\ UNCHANGED <<clock, inflight>>

Retrieve(sc) ==
    \E h \in sc.headers : \E req \in RetrieveReqs(sc) :
        Handle(req, Guarded(h, RetrieveH(req))) /\ UNCHANGED <<clock, inflight>>

Complete(sc) ==
    \E h \in sc.headers : \E req \in CompleteReqs(sc) :
        Handle(req, Guarded(h, CompleteH(req))) /\ UNCHANGED <<clock, inflight>>

Cancel(sc) ==
    \E h \in sc.headers : \E req \in CancelReqs(sc) :
        Handle(req, Guarded(h, CancelH(req))) /\ UNCHANGED <<clock, inflight>>

Delegate(sc) ==
    \E h \in sc.headers : \E req \in DelegateReqs(sc) :
        /\ Handle(req, Guarded(h, DelegateH(req)))
        /\ Cardinality(DOMAIN paymentTokens') <= MaxTokens
        /\ UNCHANGED <<clock, inflight>>

Health ==
    LET req == [op |-> "health"]
    IN  Handle(req, HealthH(req)) /\ UNCHANGED <<clock, inflight>>

\* Time passes between requests.
Tick ==
    /\ clock < MaxClock
    /\ clock' = clock + 1
    /\ UNCHANGED <<stores, inflight, last, redeemed>>

Next ==
    \/ Create(Single)
    \/ Update(Single)
    \/ Retrieve(Single)
    \/ Complete(Single)
    \/ Cancel(Single)
    \/ Delegate(Single)
    \/ Health
    \/ Tick

Spec == Init /\ [][Next]_vars

(* Several sessions side by side. *)

NextPair ==
    \/ Create(Pair)
    \/ Complete(Pair)
    \/ Cancel(Pair)
    \/ Delegate(Pair)

SpecPair == Init /\ [][NextPair]_vars

(* One session, edited in every way. *)

NextPricing ==
    \/ Create(Pricing)
    \/ Update(Pricing)
    \/ Complete(Pricing)
    \/ Cancel(Pricing)

SpecPricing == Init /\ [][NextPricing]_vars

(* One session and one token behind the middleware: requests that would    *)
(* succeed, and requests on an unknown id, under every combination of      *)
(* headers.                                                                *)

Gate ==
    [maxSessions |-> 1,
     createItems |-> {Array(1)},
     updateItems |-> {Missing},
     prices      |-> {1005},
     addresses   |-> {Undefined},
     buyers      |-> {"buyer_A"},
     unknownIds  |-> UnknownIds,
     metadata    |-> {Undefined},
     methods     |-> {<<[type |-> "card"]>>},
     allowances  |-> {<<[reason |-> "one_time"]>>},
     risks       |-> {[kind |-> "array", elems |-> <<"card_testing">>]},
     headers     |-> [authorization : AuthorizationInputs, api_version : ApiVersionInputs]]

NextHeaders ==
    \/ Create(Gate)
    \/ Update(Gate)
    \/ Retrieve(Gate)
    \/ Complete(Gate)
    \/ Cancel(Gate)
    \/ Delegate(Gate)

SpecHeaders == Init /\ [][NextHeaders]_vars

(* Concurrent clients.  Node receives requests while others wait in the    *)
(* event loop; a handler has no await and no callback, so it runs from its *)
(* first statement to its response before the next one starts.  Each       *)
(* client sends one request on the session; inflight keeps, per request,   *)
(* the clients that were waiting when it arrived, whether the session was  *)
(* ready_for_payment then, and the response once it is served (<<>> while  *)
(* it waits).                                                              *)

Clients == {"c1", "c2"}

Conc ==
    [maxSessions |-> 1,
     createItems |-> {Array(1)},
     updateItems |-> {Missing},
     prices      |-> {1005},
     addresses   |-> {Undefined},
     buyers      |-> {"buyer_A"},
     unknownIds  |-> {},
     metadata    |-> {Undefined},
     methods     |-> {<<[type |-> "card"]>>},
     allowances  |-> {<<[reason |-> r]>> : r \in {"one_time", "recurring"}},
     risks       |-> {[kind |-> "array", elems |-> <<"card_testing">>]},
     headers     |-> {GoodHeaders}]

Waiting == {e \in inflight : e.res = <<>>}

\* The route of a request selects its handler.
Route(req, rnd) ==
    IF req.op = "create" THEN CreateH(req, rnd)
    ELSE IF req.op = "update" THEN UpdateH(req, rnd)
    ELSE IF req.op = "retrieve" THEN RetrieveH(req)
    ELSE IF req.op = "complete" THEN CompleteH(req)
    ELSE IF req.op = "cancel" THEN CancelH(req)
    ELSE DelegateH(req)

Arrive(c) ==
    /\ \A e \in inflight : e.client # c
    /\ \E req \in UpdateReqs(Conc) \cup CompleteReqs(Conc) \cup CancelReqs(Conc) :
           inflight' = inflight \cup
               {[client |-> c, req |-> req,
                 with |-> {e.client : e \in Waiting},
                 ready |-> checkoutSessions[req.id].status = "ready_for_payment",
                 res |-> <<>>]}
    /\ UNCHANGED <<stores, clock, last, redeemed>>

Serve(c) ==
    \E e \in Waiting :
    \E rnd \in IF e.req.op = "update" THEN PriceDraws(Conc, e.req) ELSE {<<>>} :
    \E h \in Conc.headers :
        /\ e.client = c
        /\ Handle(e.req, Guarded(h, Route(e.req, rnd)))
        /\ inflight' = (inflight \ {e}) \cup {[e EXCEPT !.res = <<last'.res>>]}
        /\ UNCHANGED clock

NextConc ==
    \/ Create(Conc)
    \/ \E c \in Clients : Arrive(c)
    \/ \E c \in Clients : Serve(c)

SpecConc == Init /\ [][NextConc]_vars

-----------------------------------------------------------------------------
(* calculateTotals on its own: the arguments are chosen at the start, `last` *)
(* holds them, and the one step applies the function and keeps its result.  *)

\* Base prices: the least and the greatest Math.random() can give, and one
\* that is no multiple of ten.
BasePrices == {1000, 1005, 5999}

LineItemInputs ==
    UNION {{createLineItems([i \in 1..n |-> Item], [i \in 1..n |-> i], rnd) :
               rnd \in [1..n -> BasePrices]} : n \in 0..MaxLines}

\* No option, Standard, or Express.
OptionInputs ==
    {<<>>} \cup {<<createFulfillmentOptions(<<1, 2>>, 0)[k]>> : k \in 1..2}

InitTotals ==
    /\ checkoutSessions = <<>>
    /\ orders = <<>>
    /\ paymentTokens = <<>>
    /\ clock = 0
    /\ inflight = {}
    /\ redeemed = <<>>
    /\ \E lineItems \in LineItemInputs : \E found \in OptionInputs :
           last = [op |-> "none", id |-> <<>>, res |-> Ok(200),
                   body |-> <<[line_items |-> lineItems, option |-> found]>>]

Calculate ==
    /\ last.op = "none"
    /\ last' = [op |-> "calculateTotals", id |-> <<>>, res |-> Ok(200),
                body |-> <<[line_items |-> last.body[1].line_items,
                            option |-> last.body[1].option,
                            totals |-> calculateTotals(last.body[1].line_items,
                                                       last.body[1].option)]>>]
    /\ UNCHANGED <<stores, clock, inflight, redeemed>>

NextTotals == Calculate

SpecTotals == InitTotals /\ [][NextTotals]_vars

-----------------------------------------------------------------------------
(* Properties *)

\* The orders that point back to session s.
OrdersOf(s) == {o \in DOMAIN orders : orders[o].checkout_session_id = s}

\* The option a session has selected, as calculateTotals receives it.
SelectedOption(session) ==
    FindOption(session.fulfillment_options, session.fulfillment_option_id)

\* C1 (SpecPricing): in every reachable state the totals of every stored
\* session are calculateTotals of its current line items and of the option
\* its fulfillment_option_id names.
C1_TotalsNeverStale ==
    \A s \in Sessions :
        checkoutSessions[s].totals =
            calculateTotals(checkoutSessions[s].line_items,
                            SelectedOption(checkoutSessions[s]))

\* C2 (SpecPricing): a request answered with an error leaves the session,
\* order and token stores as they were before it.
C2_ErrorsWriteNothing ==
    [][(clock' = clock /\ last'.res.http >= 400) => stores' = stores]_vars

\* C3 (SpecPair): a Complete with a payment token succeeds on a session that
\* is ready_for_payment and completes it; on the completed session it fails
\* with invalid_status and writes nothing; and in every reachable state a
\* session has one order if it is completed and none otherwise.
C3_CompleteOnce ==
    /\ \A s \in Sessions :
           Cardinality(OrdersOf(s)) =
               IF checkoutSessions[s].status = "completed" THEN 1 ELSE 0
    /\ \A req \in CompleteReqs(Pair) :
           req.payment_data.token # <<>> =>
               LET out == CompleteH(req)
               IN  /\ checkoutSessions[req.id].status = "ready_for_payment" =>
                          /\ out.res.http = 200
                          /\ out.sessions[req.id].status = "completed"
                   /\ checkoutSessions[req.id].status = "completed" =>
                          /\ out.res.code = "invalid_status"
                          /\ out.orders = orders
                          /\ out.sessions = checkoutSessions

\* A second Complete has been rejected on a session the first one completed.
C3_SecondCompleteRejected ==
    /\ last.op = "complete"
    /\ last.res.code = "invalid_status"
    /\ \E s \in Sessions :
           /\ last.id = <<s>>
           /\ checkoutSessions[s].status = "completed"
           /\ Cardinality(OrdersOf(s)) = 1

\* C4 (Spec): once a session is completed or canceled no step changes its
\* record; every later Update, Complete and Cancel on it is answered with an
\* error and every later Retrieve with that record.
C4_TerminalFrozen ==
    [][\A s \in Sessions :
           checkoutSessions[s].status \in Terminal =>
               /\ s \in DOMAIN checkoutSessions'
               /\ checkoutSessions'[s] = checkoutSessions[s]
               /\ (clock' = clock /\ last'.id = <<s>>) =>
                      IF last'.op = "retrieve"
                      THEN last'.res.http = 200 /\ last'.body = <<checkoutSessions[s]>>
                      ELSE last'.res.http >= 400]_vars

\* An Update has been rejected on a terminal session, later than the
\* transition that ended it.
C4_UpdateAfterTheEnd ==
    /\ last.op = "update"
    /\ last.res.code = "invalid_status"
    /\ \E s \in Sessions :
           /\ last.id = <<s>>
           /\ checkoutSessions[s].status \in Terminal
           /\ checkoutSessions[s].updated_at < clock

\* C5 (SpecPair): no two sessions were completed with the same delegated
\* payment token.
C5_TokenRedeemedOnce ==
    \A s1 \in DOMAIN redeemed : \A s2 \in DOMAIN redeemed :
        (redeemed[s1] \in DOMAIN paymentTokens /\ redeemed[s1] = redeemed[s2]) => s1 = s2

\* C6 (SpecPricing): the fulfillment_option_id of every stored session is the
\* id of one of its fulfillment_options, and right after a Create it is the
\* id of the first one, Standard.
C6_OptionNeverDangling ==
    /\ \A s \in Sessions : SelectedOption(checkoutSessions[s]) # <<>>
    /\ (last.op = "create" /\ last.res.http = 201) =>
           LET session == checkoutSessions[last.body[1].id]
           IN  /\ session.fulfillment_option_id = session.fulfillment_options[1].id
               /\ session.fulfillment_options[1].title = "Standard"

\* An Update with an unknown option id has been rejected on a session that
\* had selected its second option.
C6_UnknownOptionRejected ==
    /\ last.op = "update"
    /\ last.res = Error(400, "invalid_request", "invalid", "$.fulfillment_option_id")
    /\ \E s \in Sessions :
           /\ last.id = <<s>>
           /\ checkoutSessions[s].fulfillment_option_id =
                  checkoutSessions[s].fulfillment_options[2].id

\* C7 (SpecPricing): no step changes the fulfillment_options of a stored
\* session.
C7_OptionsFixed ==
    [][\A s \in Sessions :
           /\ s \in DOMAIN checkoutSessions'
           /\ checkoutSessions'[s].fulfillment_options =
                  checkoutSessions[s].fulfillment_options]_vars

\* An Update has given a session an address and new line items (their ids
\* were drawn after those of the options), and the two options are there.
C7_EditedSession ==
    /\ last.op = "update"
    /\ last.res.http = 200
    /\ \E s \in Sessions :
           LET session == checkoutSessions[s]
           IN  /\ last.id = <<s>>
               /\ session.fulfillment_address = "addr_A"
               /\ Len(session.fulfillment_options) = 2
               /\ session.line_items # <<>>
               /\ session.line_items[1].id > session.fulfillment_options[2].id

\* C8 (Spec): a Cancel on a completed or canceled session is answered with an
\* error and writes nothing, and its response differs, in error code or in
\* HTTP status, from the invalid_status response every Update and Complete on
\* that session gets.
C8_LateCancelDistinct ==
    \A s \in Sessions :
        checkoutSessions[s].status \in Terminal =>
            LET cancel == CancelH([op |-> "cancel", id |-> s])
                others ==
                    {UpdateH(req, <<>>) : req \in {r \in UpdateReqs(Single) : r.id = s}}
                    \cup {CompleteH(req) : req \in {r \in CompleteReqs(Single) : r.id = s}}
            IN  /\ cancel.res.http >= 400
                /\ cancel.sessions = checkoutSessions
                /\ cancel.orders = orders
                /\ cancel.tokens = paymentTokens
                /\ \A other \in others :
                       /\ other.res.code = "invalid_status"
                       /\ \/ other.res.code # cancel.res.code
                          \/ other.res.http # cancel.res.http

\* A Cancel has been rejected on a completed session.
C8_LateCancelRejected ==
    /\ last.op = "cancel"
    /\ last.res.http >= 400
    /\ \E s \in Sessions :
           last.id = <<s>> /\ checkoutSessions[s].status = "completed"

\* Request e2 arrived while e1 waited and the session was ready_for_payment,
\* and both have been answered.
Raced(e1, e2) ==
    /\ e1.client \in e2.with
    /\ e2.ready
    /\ e1.req.id = e2.req.id
    /\ e1.res # <<>>
    /\ e2.res # <<>>

\* A Complete with a payment token, or a Cancel.
Ending(e) ==
    \/ e.req.op = "cancel"
    \/ e.req.op = "complete" /\ e.req.payment_data.token # <<>>

Succeeded(e) == e.res[1].http = 200

\* C9 (SpecConc): of two requests that waited together on a ready_for_payment
\* session, a Complete with a token and a Cancel, or two such Completes, one
\* succeeds and the other fails; a Complete or Cancel that waited with an
\* Update succeeds; a session has at most one order, and a canceled session
\* has none.
C9_RunsToCompletion ==
    /\ \A s \in Sessions :
           /\ Cardinality(OrdersOf(s)) <= 1
           /\ checkoutSessions[s].status = "canceled" =>
                  OrdersOf(s) = {} /\ checkoutSessions[s].order = <<>>
    /\ \A e1 \in inflight : \A e2 \in inflight :
           Raced(e1, e2) =>
               /\ (Ending(e1) /\ Ending(e2) /\ "complete" \in {e1.req.op, e2.req.op}) =>
                      Succeeded(e1) # Succeeded(e2)
               /\ (Ending(e1) /\ e2.req.op = "update") => Succeeded(e1)
               /\ (e1.req.op = "update" /\ Ending(e2)) => Succeeded(e2)

\* A Complete and a Cancel waited together; the Cancel was served first and
\* the Complete was rejected.
C9_CancelWonTheRace ==
    \E e1 \in inflight : \E e2 \in inflight :
        /\ Raced(e1, e2)
        /\ e1.req.op = "complete" /\ Ending(e1)
        /\ e2.req.op = "cancel"
        /\ Succeeded(e2)
        /\ e1.res[1].code = "invalid_status"

\* C10 (SpecPair): a Create whose items are missing, no array or an empty
\* array fails with type invalid_request, code invalid and leaves the session
\* store as it was; any other Create adds one session to the store, under an
\* id the store did not hold, and changes no other.
C10_CreateValidates ==
    \A req \in CreateReqs(Pair) : \A rnd \in PriceDraws(Pair, req) :
        LET out == CreateH(req, rnd)
        IN  IF req.items.kind \in {"missing", "nonarray"} \/ req.items.elems = <<>>
            THEN /\ out.res.type = "invalid_request"
                 /\ out.res.code = "invalid"
                 /\ out.sessions = checkoutSessions
            ELSE \E id \in DOMAIN out.sessions \ Sessions :
                     /\ DOMAIN out.sessions = Sessions \cup {id}
                     /\ out.sessions[id].id = id
                     /\ \A s \in Sessions : out.sessions[s] = checkoutSessions[s]

\* A second session has been created next to the first.
C10_SecondSessionStored ==
    /\ last.op = "create"
    /\ last.res.http = 201
    /\ Cardinality(Sessions) = 2
    /\ last.body[1].id \in Sessions
    /\ checkoutSessions[last.body[1].id] = last.body[1]


\* The amount of the totals entry of the given type.
Amount(totals, type) ==
    LET i == CHOOSE j \in DOMAIN totals : totals[j].type = type
    IN  totals[i].amount

\* C11 (SpecPricing): the session a successful Create returns and stores is
\* ready_for_payment, has two fulfillment options, Standard with total 100
\* then Express with total 500, no messages and no order, and totals whose
\* fulfillment is 100 and whose total is subtotal + tax + 100.
C11_CreatedSession ==
    (last.op = "create" /\ last.res.http = 201) =>
        LET session == last.body[1]
            options == session.fulfillment_options
        IN  /\ checkoutSessions[session.id] = session
            /\ session.status = "ready_for_payment"
            /\ Len(options) = 2
            /\ options[1].title = "Standard" /\ options[1].total = 100
            /\ options[2].title = "Express" /\ options[2].total = 500
            /\ session.messages = <<>>
            /\ session.order = <<>>
            /\ Amount(session.totals, "fulfillment") = 100
            /\ Amount(session.totals, "total") =
                   Amount(session.totals, "subtotal") + Amount(session.totals, "tax") + 100

\* A Create has succeeded for one item priced 1005: subtotal 1005, tax 100.
C11_SessionJustCreated ==
    /\ last.op = "create"
    /\ last.res.http = 201
    /\ Amount(last.body[1].totals, "subtotal") = 1005
    /\ Amount(last.body[1].totals, "total") = 1205


\* C12 (SpecPricing): an Update that supplies only the Express option's id
\* to a ready_for_payment session with Standard selected succeeds, keeps the
\* line items, sets the fulfillment entry to 500 and raises the total by 400.
C12_ExpressAdds400 ==
    [][\A s \in Sessions :
           LET before == checkoutSessions[s]
               after == checkoutSessions'[s]
           IN  (/\ last'.op = "update" /\ last'.id = <<s>> /\ last'.res.http = 200
                /\ before.status = "ready_for_payment"
                /\ before.fulfillment_option_id = before.fulfillment_options[1].id
                /\ after.fulfillment_option_id = before.fulfillment_options[2].id
                /\ after.line_items = before.line_items
                /\ after.fulfillment_address = before.fulfillment_address)
               => /\ Amount(after.totals, "fulfillment") = 500
                  /\ Amount(after.totals, "total") = Amount(before.totals, "total") + 400]_vars


\* The ids of the options of a session.
OptionIds(session) ==
    {session.fulfillment_options[i].id : i \in DOMAIN session.fulfillment_options}

\* C13 (SpecPricing): an Update of a ready_for_payment session that supplies
\* nothing but a fulfillment_option_id the session's options do not hold
\* fails with type invalid_request, code invalid, and leaves the session's
\* fulfillment_option_id and totals as they were.
C13_UnknownOptionAlone ==
    \A s \in Sessions :
        checkoutSessions[s].status = "ready_for_payment" =>
            \A id \in (UnknownIds \cup UsedIds) \ OptionIds(checkoutSessions[s]) :
                LET req == [op |-> "update", id |-> s, items |-> Missing,
                            fulfillment_address |-> Undefined,
                            fulfillment_option_id |-> <<id>>]
                    out == UpdateH(req, <<>>)
                IN  /\ out.res.type = "invalid_request"
                    /\ out.res.code = "invalid"
                    /\ out.sessions[s].fulfillment_option_id =
                           checkoutSessions[s].fulfillment_option_id
                    /\ out.sessions[s].totals = checkoutSessions[s].totals

\* An unknown option id has been rejected on a session that has had nothing
\* written since its Create.
C13_LoneUnknownOptionRejected ==
    /\ last.op = "update"
    /\ last.res.code = "invalid"
    /\ last.res.param = "$.fulfillment_option_id"
    /\ \E s \in Sessions :
           LET session == checkoutSessions[s]
           IN  /\ last.id = <<s>>
               /\ session.status = "ready_for_payment"
               /\ session.fulfillment_address = Null
               /\ session.line_items # <<>>
               /\ session.line_items[1].id < session.fulfillment_options[1].id
               /\ session.fulfillment_option_id = session.fulfillment_options[1].id
               /\ session.updated_at = session.created_at


\* C14 (Spec): Complete answers not_found for an id the store does not hold,
\* whatever else the request carries; invalid_status for a session that is
\* not ready_for_payment, with or without a token; and invalid for a
\* ready_for_payment session when payment_data is missing or has no token,
\* in which case it writes nothing and a Complete with a token on that
\* session still succeeds.
C14_CompleteCheckOrder ==
    \A req \in [op : {"complete"}, id : Sessions \cup UnknownIds,
                buyer : {Undefined}, payment_data : PaymentDataInputs] :
        LET out == CompleteH(req)
        IN  IF req.id \notin Sessions
            THEN out.res.code = "not_found"
            ELSE IF checkoutSessions[req.id].status # "ready_for_payment"
            THEN out.res.code = "invalid_status"
            ELSE req.payment_data.token = <<>> =>
                     /\ out.res.type = "invalid_request"
                     /\ out.res.code = "invalid"
                     /\ out.sessions = checkoutSessions
                     /\ out.orders = orders
                     /\ out.tokens = paymentTokens
                     /\ \A t \in DOMAIN paymentTokens \cup UnmintedTokens :
                            CompleteH([req EXCEPT
                                !.payment_data = [kind |-> "object", token |-> <<t>>]
                            ]).res.http = 200

\* A Complete without a token has been rejected on a session that is still
\* ready_for_payment and has no order.
C14_TokenlessCompleteRejected ==
    /\ last.op = "complete"
    /\ last.res.code = "invalid"
    /\ last.res.param = "$.payment_data"
    /\ \E s \in Sessions :
           /\ last.id = <<s>>
           /\ checkoutSessions[s].status = "ready_for_payment"
           /\ OrdersOf(s) = {}


\* C15 (Spec): Delegate answers invalid_card unless the payment method has
\* type card, else invalid_allowance unless the allowance has reason
\* one_time, else invalid unless risk_signals is a non-empty array; each
\* rejection leaves the token store as it was; an accepted Delegate adds one
\* token, under an id the store did not hold, and changes no other.
C15_DelegateChecks ==
    \A req \in [op : {"delegate"}, payment_method : PaymentMethodInputs,
                allowance : AllowanceInputs, billing_address : {Undefined},
                risk_signals : RiskSignalsInputs, metadata : {Undefined}] :
        LET out == DelegateH(req)
            card == req.payment_method # <<>> /\ req.payment_method[1].type = "card"
            oneTime == req.allowance # <<>> /\ req.allowance[1].reason = "one_time"
            risks == req.risk_signals.kind = "array" /\ req.risk_signals.elems # <<>>
        IN  IF card /\ oneTime /\ risks
            THEN /\ out.res.http = 201
                 /\ \E id \in DOMAIN out.tokens \ DOMAIN paymentTokens :
                        /\ DOMAIN out.tokens = DOMAIN paymentTokens \cup {id}
                        /\ out.tokens[id].id = id
                        /\ \A t \in DOMAIN paymentTokens : out.tokens[t] = paymentTokens[t]
            ELSE /\ out.tokens = paymentTokens
                 /\ out.res.code = IF ~ card THEN "invalid_card"
                                   ELSE IF ~ oneTime THEN "invalid_allowance"
                                   ELSE "invalid"

\* A Delegate has been accepted and its token is in the store.
C15_TokenMinted ==
    /\ last.op = "delegate"
    /\ last.res.http = 201
    /\ last.body[1].id \in DOMAIN paymentTokens
    /\ paymentTokens[last.body[1].id].allowance.reason = "one_time"

\* Accepted Delegate requests that differ in what their payment method,
\* allowance, billing address and risk signals contain.
DetailedDelegateReqs ==
    [op : {"delegate"},
     payment_method : {<<[type |-> "card", number |-> n]>> :
                          n \in {"4242424242424242", "5555555555554444"}},
     allowance : {<<[reason |-> "one_time", max_amount |-> m]>> : m \in {10000, 20000}},
     billing_address : {Undefined, "addr_A"},
     risk_signals : {[kind |-> "array", elems |-> e] :
                        e \in {<<"card_testing">>, <<"card_testing", "velocity">>}},
     metadata : {Undefined, "meta_A"}]

\* C16 (Spec): the response of an accepted Delegate has the fields id,
\* created and metadata and no other, and is determined by the generated id,
\* the time and the request's metadata: requests that differ only in their
\* payment method, allowance, billing address or risk signals get the same
\* response.
C16_ResponseHidesToken ==
    \A req \in DetailedDelegateReqs :
        LET out == DelegateH(req)
        IN  /\ out.res.http = 201
            /\ DOMAIN out.body[1] = {"id", "created", "metadata"}
            /\ out.body = <<[id |-> Draws(UsedIds, 1)[1],
                             created |-> clock,
                             metadata |-> IF req.metadata # Undefined
                                          THEN req.metadata ELSE "{}"]>>

\* A Delegate has been answered with three fields while the token it
\* stored holds the payment method.
C16_TokenKeptBack ==
    /\ last.op = "delegate"
    /\ last.res.http = 201
    /\ DOMAIN last.body[1] = {"id", "created", "metadata"}
    /\ \E t \in DOMAIN paymentTokens :
           t = last.body[1].id /\ paymentTokens[t].payment_method.type = "card"


\* C17 (SpecTotals): calculateTotals returns five entries, in the order
\* items_base_amount, subtotal, tax, fulfillment, total; the first two are
\* the sum of the base amounts of the line items, tax is that sum divided by
\* ten and rounded down, fulfillment is the total of the option, or 0 without
\* an option, and total is subtotal + tax + fulfillment.
C17_TotalsBreakdown ==
    last.op = "calculateTotals" =>
        LET lineItems == last.body[1].line_items
            found == last.body[1].option
            totals == last.body[1].totals
            sum[i \in 0..Len(lineItems)] ==
                IF i = 0 THEN 0 ELSE sum[i - 1] + lineItems[i].base_amount
            subtotal == sum[Len(lineItems)]
        IN  /\ [i \in DOMAIN totals |-> totals[i].type] =
                   <<"items_base_amount", "subtotal", "tax", "fulfillment", "total">>
            /\ totals[1].amount = subtotal
            /\ totals[2].amount = subtotal
            /\ totals[3].amount * 10 <= subtotal
            /\ subtotal < (totals[3].amount + 1) * 10
            /\ totals[4].amount = IF found = <<>> THEN 0 ELSE found[1].total
            /\ totals[5].amount = subtotal + totals[3].amount + totals[4].amount

\* The totals of three line items priced 1005, 5999 and 1000 with the
\* Express option have been computed: 8004 + 800 + 500.
C17_TotalsComputed ==
    /\ last.op = "calculateTotals"
    /\ [i \in DOMAIN last.body[1].line_items |-> last.body[1].line_items[i].base_amount]
           = <<1005, 5999, 1000>>
    /\ last.body[1].option # <<>>
    /\ last.body[1].option[1].title = "Express"
    /\ last.body[1].totals[5].amount = 9304


\* The requests of a scope to the routes behind the middleware.
GuardedReqs(sc) ==
    CreateReqs(sc) \cup UpdateReqs(sc) \cup RetrieveReqs(sc)
    \cup CompleteReqs(sc) \cup CancelReqs(sc) \cup DelegateReqs(sc)

\* C18 (SpecHeaders): a request to a checkout-session or delegate-payment
\* route whose Authorization header is absent or does not start with
\* "Bearer " is answered missing_authorization, whatever its API-Version;
\* otherwise, with an API-Version that is absent or not 2025-09-29, it is
\* answered invalid_api_version; in both cases the answer is the same for
\* every request and state and the three stores are as before.  With both
\* headers right the outcome is the route handler's.
C18_HeadersFirst ==
    \A h \in Gate.headers : \A req \in GuardedReqs(Gate) :
        LET rnd == [i \in 1..(IF req.op \in {"create", "update"}
                              THEN Len(req.items.elems) ELSE 0) |-> 1005]
            out == Guarded(h, Route(req, rnd))
            refused == /\ out.body = <<>>
                       /\ out.res.type = "invalid_request"
                       /\ out.sessions = checkoutSessions
                       /\ out.orders = orders
                       /\ out.tokens = paymentTokens
        IN  IF h.authorization = <<>> \/ h.authorization[1] # "Bearer "
            THEN refused /\ out.res.http = 401 /\ out.res.code = "missing_authorization"
            ELSE IF h.api_version # "2025-09-29"
            THEN refused /\ out.res.http = 400 /\ out.res.code = "invalid_api_version"
            ELSE out = Route(req, rnd)

\* A Cancel of a ready_for_payment session has been refused for its
\* Authorization header, and the session is ready_for_payment still.
C18_CancelRefused ==
    /\ last.op = "cancel"
    /\ last.res.code = "missing_authorization"
    /\ \E s \in Sessions :
           last.id = <<s>> /\ checkoutSessions[s].status = "ready_for_payment"


\* C19 (SpecPair): an Update, Retrieve, Complete or Cancel leaves every
\* stored session but the one it addresses as it was, and the token store as
\* it was; a Create leaves every stored session and the token store as they
\* were; a Delegate leaves the session store and the order store as they
\* were.
C19_OtherRecordsUntouched ==
    /\ \A req \in UpdateReqs([Pair EXCEPT !.updateItems = {Missing, Array(1)},
                                          !.addresses = {Undefined, "addr_A"}])
                  \cup RetrieveReqs(Pair) \cup CompleteReqs(Pair) \cup CancelReqs(Pair) :
       \A rnd \in IF req.op = "update" THEN PriceDraws(Pair, req) ELSE {<<>>} :
           LET out == Route(req, rnd)
           IN  /\ DOMAIN out.sessions = Sessions
               /\ \A s \in Sessions \ {req.id} : out.sessions[s] = checkoutSessions[s]
               /\ out.tokens = paymentTokens
    /\ \A req \in CreateReqs(Pair) : \A rnd \in PriceDraws(Pair, req) :
           LET out == CreateH(req, rnd)
           IN  /\ \A s \in Sessions :
                      s \in DOMAIN out.sessions /\ out.sessions[s] = checkoutSessions[s]
               /\ out.tokens = paymentTokens
    /\ \A req \in DelegateReqs(Pair) :
           LET out == DelegateH(req)
           IN  out.sessions = checkoutSessions /\ out.orders = orders

\* A session has been completed next to another that is ready_for_payment
\* and has no order, with a token in the store.
C19_NeighbourUntouched ==
    /\ last.op = "complete"
    /\ last.res.http = 200
    /\ paymentTokens # <<>>
    /\ \E s \in Sessions : \E t \in Sessions \ {s} :
           /\ last.id = <<s>>
           /\ checkoutSessions[s].status = "completed"
           /\ checkoutSessions[t].status = "ready_for_payment"
           /\ checkoutSessions[t].order = <<>>
           /\ checkoutSessions[t].updated_at = checkoutSessions[t].created_at


\* What GET /health reports in the current state.
Report == HealthH([op |-> "health"]).body[1]

\* C20 (Spec): no step removes a session, an order or a token or changes a
\* stored order or token, and the three sizes the health endpoint reports
\* never go down.
C20_StoresOnlyGrow ==
    [][/\ DOMAIN checkoutSessions \subseteq DOMAIN checkoutSessions'
       /\ DOMAIN orders \subseteq DOMAIN orders'
       /\ DOMAIN paymentTokens \subseteq DOMAIN paymentTokens'
       /\ \A o \in DOMAIN orders : orders'[o] = orders[o]
       /\ \A t \in DOMAIN paymentTokens : paymentTokens'[t] = paymentTokens[t]
       /\ Report'.sessions >= Report.sessions
       /\ Report'.orders >= Report.orders
       /\ Report'.tokens >= Report.tokens]_vars

\* The health endpoint has reported one session, one order and one token,
\* after the session was completed.
C20_AllStoresReported ==
    /\ last.op = "health"
    /\ last.body[1].sessions = 1
    /\ last.body[1].orders = 1
    /\ last.body[1].tokens = 1
    /\ \E s \in Sessions : checkoutSessions[s].status = "completed"



\* What a stored session says about its order, in the state after a step:
\* an order exactly when completed, no buyer and no order otherwise, and the
\* order of a completed session is the stored order that names it.
OrderMatchesStatus(sessions, allOrders) ==
    \A s \in DOMAIN sessions :
        LET session == sessions[s]
        IN  /\ (session.order # <<>>) <=> (session.status = "completed")
            /\ session.status \in {"ready_for_payment", "canceled"}
                   => session.buyer = Undefined /\ session.order = <<>>
            /\ session.status = "completed"
                   => /\ session.order[1].checkout_session_id = s
                      /\ session.order[1].status = "created"
                      /\ session.order[1].id \in DOMAIN allOrders
                      /\ allOrders[session.order[1].id] = session.order[1]

\* C21 (SpecPricing): after every step a stored session carries an order
\* if and only if its status is completed; order and buyer are absent on
\* ready_for_payment sessions (Create is always given a buyer here) and on
\* canceled ones; the order names the session and has status created; and
\* the only step that changes a session's order or buyer is a successful
\* Complete of that session, which finds both absent.
C21_OrderIffCompleted ==
    [][/\ OrderMatchesStatus(checkoutSessions', orders')
       /\ \A s \in Sessions :
              LET before == checkoutSessions[s]
                  after == checkoutSessions'[s]
              IN  (after.order # before.order \/ after.buyer # before.buyer)
                      => /\ last'.op = "complete"
                         /\ last'.id = <<s>>
                         /\ last'.res.http = 200
                         /\ before.status = "ready_for_payment"
                         /\ before.order = <<>>
                         /\ before.buyer = Undefined
                         /\ after.buyer = "buyer_A"
                         /\ after.order # <<>>]_vars

\* A session created with a buyer has just been completed: it now carries
\* that buyer and an order that names it.
C21_OrderAndBuyerWritten ==
    /\ last.op = "complete"
    /\ last.res.http = 200
    /\ \E s \in Sessions :
           /\ last.id = <<s>>
           /\ checkoutSessions[s].buyer = "buyer_A"
           /\ checkoutSessions[s].order # <<>>
           /\ checkoutSessions[s].order[1].checkout_session_id = s
           /\ orders[checkoutSessions[s].order[1].id].status = "created"



\* C22 (SpecPricing): an Update of a ready_for_payment session whose items
\* is a truthy value that is not an array, whatever address and option id
\* come with it, is answered 500 processing_error / internal_error with no
\* body, and leaves the session, the orders and the tokens as they were.
C22_ThrowWritesNothing ==
    \A req \in UpdateReqs(Pricing) :
        (/\ req.items = NonArray
         /\ checkoutSessions[req.id].status = "ready_for_payment")
            => \A rnd \in PriceDraws(Pricing, req) :
                   LET out == UpdateH(req, rnd)
                   IN  /\ out.res.http = 500
                       /\ out.res.type = "processing_error"
                       /\ out.res.code = "internal_error"
                       /\ out.body = <<>>
                       /\ out.sessions = checkoutSessions
                       /\ out.orders = orders
                       /\ out.tokens = paymentTokens

\* An Update of a ready_for_payment session has just been answered with
\* internal_error.
C22_UpdateThrew ==
    /\ last.op = "update"
    /\ last.res = InternalError
    /\ \E s \in Sessions :
           /\ last.id = <<s>>
           /\ checkoutSessions[s].status = "ready_for_payment"



\* C23 (SpecPricing): every stored session has at least one line item.
C23_NeverWithoutLineItems ==
    \A s \in Sessions : checkoutSessions[s].line_items # <<>>



RECURSIVE SumTax(_)
\* The sum of the tax fields of a sequence of line items.
SumTax(lineItems) ==
    IF lineItems = <<>> THEN 0
    ELSE Head(lineItems).tax + SumTax(Tail(lineItems))

\* The arithmetic of one line item.
LineItemPriced(item) ==
    /\ item.base_amount > 0
    /\ item.subtotal = item.base_amount
    /\ item.tax = FloorTenth(item.subtotal)
    /\ item.total = item.subtotal + item.tax

\* The tax entry of the totals against the taxes of the line items: at
\* least their sum, and above it by less than their number.
TaxWithinRounding(lineItems, totals) ==
    /\ Amount(totals, "tax") >= SumTax(lineItems)
    /\ Amount(totals, "tax") - SumTax(lineItems) < Len(lineItems)

\* C24 (SpecPricing): in every stored session each line item has
\* base_amount > 0, subtotal = base_amount, tax = floor(subtotal / 10) and
\* total = subtotal + tax, and the tax entry of the session's totals is at
\* least the sum of the line items' taxes and above it by less than the
\* number of line items.
C24_TaxesAgree ==
    \A s \in Sessions :
        LET session == checkoutSessions[s]
        IN  /\ \A i \in 1..Len(session.line_items) :
                   LineItemPriced(session.line_items[i])
            /\ TaxWithinRounding(session.line_items, session.totals)

=============================================================================
